---- MODULE Spec2Model ----
(***************************************************************************)
(* Model of auto_match.py: the playlist/guide matching pipeline.           *)
(*                                                                         *)
(* Text is a sequence of one-character strings, so that strip, startswith, *)
(* split, lower, whitespace collapsing and the similarity ratio are        *)
(* computed on characters as the code computes them.  A playlist document  *)
(* is the sequence of lines that splitlines() returns.  A guide document   *)
(* is the prologue that the header regex captures together with the        *)
(* sequence of blocks that the channel and programme regexes capture, the  *)
(* prologue lying before the first block.  A channel block is the pair     *)
(* (cid, inner) the pattern captures, inner being the texts of its         *)
(* display-name elements; a programme block carries the value that the     *)
(* pattern channel="(.*?)" finds in it, or None when it finds nothing.     *)
(* Python's None is the record None; a present value x is Some(x).         *)
(***************************************************************************)
EXTENDS Integers, Sequences, FiniteSets, TLC

VARIABLES
    pc,            \* position in main()
    run,           \* 1 = first execution, 2 = re-execution on the same documents
    m3u_status,    \* outcome of requests.get/raise_for_status for M3U_URL in this run
    epg_status,    \* outcome of requests.get/raise_for_status/gunzip for EPG_URL
    src_m3u,       \* the playlist document the server holds
    src_epg,       \* the guide document the server holds
    m3u_text,      \* main: m3u_text
    epg_xml,       \* main: epg_xml
    line_idx,      \* parse_m3u_channels: number of lines consumed by the for loop
    current_name,  \* parse_m3u_channels: current_name
    channels,      \* parse_m3u_channels: channels / main: channels
    epg_channels,  \* main: epg_channels, a dict kept as its item sequence
    match_idx,     \* main: number of entries consumed by the matching loop
    mapping,       \* main: mapping (dict name -> cid)
    used_ids,      \* main: used_ids
    new_m3u,       \* main: new_m3u, as the list of lines joined with "\n"
    filtered_epg,  \* main: filtered_epg, as the list of fragments joined with "\n"
    file_m3u,      \* the document this run wrote to OUTPUT_M3U, None before the write
    file_epg,      \* the document this run wrote (gzipped) to OUTPUT_EPG
    first_out      \* the two files as the first execution left them

vars == <<pc, run, m3u_status, epg_status, src_m3u, src_epg, m3u_text, epg_xml,
          line_idx, current_name, channels, epg_channels, match_idx, mapping,
          used_ids, new_m3u, filtered_epg, file_m3u, file_epg, first_out>>

-----------------------------------------------------------------------------
(* Bounds of the model *)

MaxLines == 4
MaxEntries == 2
MaxBlocks == 2
MaxChannels == 3

-----------------------------------------------------------------------------
(* Python values *)

None == [none |-> TRUE]
Some(x) == [none |-> FALSE, val |-> x]

\* bool(x) for a name x: None and the empty text are false
TruthyText(o) == (~o.none) /\ o.val # <<>>

\* bool(x) for an identifier x: None and the empty identifier are false
TruthyId(o) == (~o.none) /\ o.val # ""

MIN_SIMILARITY_NUM == 82
MIN_SIMILARITY_DEN == 100

OUTPUT_M3U == "playlist_su_epg.m3u8"
OUTPUT_EPG == "epg_su_filtru.xml.gz"

-----------------------------------------------------------------------------
(* str methods *)

IsSpace(c) == c \in {" ", "\t"}

RECURSIVE LStrip(_)
LStrip(s) == IF s = <<>> THEN s
             ELSE IF IsSpace(Head(s)) THEN LStrip(Tail(s)) ELSE s

RECURSIVE RStrip(_)
RStrip(s) == IF s = <<>> THEN s
             ELSE IF IsSpace(s[Len(s)]) THEN RStrip(SubSeq(s, 1, Len(s) - 1)) ELSE s

Strip(s) == RStrip(LStrip(s))

StartsWith(s, p) == Len(s) >= Len(p) /\ SubSeq(s, 1, Len(p)) = p

Contains(s, c) == \E i \in 1..Len(s) : s[i] = c

\* s.split(c, 1)[1], for s that contains c
AfterFirst(s, c) ==
    LET i == CHOOSE k \in 1..Len(s) : s[k] = c /\ \A j \in 1..(k - 1) : s[j] # c
    IN  SubSeq(s, i + 1, Len(s))

LowerChar(c) ==
    CASE c = "A" -> "a"
      [] c = "B" -> "b"
      [] c = "C" -> "c"
      [] c = "D" -> "d"
      [] OTHER -> c

Lower(s) == [i \in 1..Len(s) |-> LowerChar(s[i])]

\* re.sub(r"\s+", " ", s)
RECURSIVE CollapseSpace(_)
CollapseSpace(s) ==
    IF s = <<>> THEN s
    ELSE IF IsSpace(Head(s))
         THEN <<" ">> \o CollapseSpace(LStrip(s))
         ELSE <<Head(s)>> \o CollapseSpace(Tail(s))

-----------------------------------------------------------------------------
(* parse_m3u_channels *)

EXTINF == <<"#", "E", "X", "T", "I", "N", "F">>

\* ParseStep without "current_name = None" after an entry is appended
ParseStep_KeepName(st, raw) ==
    LET line == Strip(raw) IN
    IF StartsWith(line, EXTINF)
    THEN IF Contains(line, ",")
         THEN [st EXCEPT !.current_name = Some(Strip(AfterFirst(line, ",")))]
         ELSE [st EXCEPT !.current_name = None]
    ELSE IF line # <<>> /\ ~StartsWith(line, <<"#">>) /\ TruthyText(st.current_name)
         THEN [st EXCEPT !.channels = Append(st.channels, <<st.current_name.val, line>>)]
         ELSE st

\* One iteration of the for loop: st = [current_name, channels], raw = the line
ParseStep(st, raw) ==
    LET line == Strip(raw) IN
    IF StartsWith(line, EXTINF)
    THEN IF Contains(line, ",")
         THEN [st EXCEPT !.current_name = Some(Strip(AfterFirst(line, ",")))]
         ELSE [st EXCEPT !.current_name = None]
    ELSE IF line # <<>> /\ ~StartsWith(line, <<"#">>) /\ TruthyText(st.current_name)
         THEN [current_name |-> None,
               channels |-> Append(st.channels, <<st.current_name.val, line>>)]
         ELSE st

\* the state of the for loop after the first n lines
RECURSIVE ParseLoop(_, _)
ParseLoop(lines, n) ==
    IF n = 0 THEN [current_name |-> None, channels |-> <<>>]
    ELSE ParseStep(ParseLoop(lines, n - 1), lines[n])

parse_m3u_channels(lines) == ParseLoop(lines, Len(lines)).channels

-----------------------------------------------------------------------------
(* similarity: difflib.SequenceMatcher(None, a.lower(), b.lower()).ratio()  *)
(* Offsets are Python's: a[i] is the TLA+ element a[i + 1]; ranges are     *)
(* half open.  No element is junk (isjunk is None, texts are far shorter   *)
(* than the 200 characters at which autojunk starts).  A score is the      *)
(* exact fraction <<numerator, denominator>>.                              *)

\* the length of the common run of a[i:ahi] and b[j:bhi]
RECURSIVE RunLength(_, _, _, _, _, _)
RunLength(a, b, i, ahi, j, bhi) ==
    IF i < ahi /\ j < bhi /\ a[i + 1] = b[j + 1]
    THEN 1 + RunLength(a, b, i + 1, ahi, j + 1, bhi)
    ELSE 0

SetMax(S) == CHOOSE x \in S : \A y \in S : y <= x
SetMin(S) == CHOOSE x \in S : \A y \in S : x <= y

\* SequenceMatcher.find_longest_match: the longest block, earliest in a, then in b
find_longest_match(a, b, alo, ahi, blo, bhi) ==
    IF alo >= ahi \/ blo >= bhi THEN <<alo, blo, 0>>
    ELSE LET k == SetMax({RunLength(a, b, i, ahi, j, bhi) :
                             i \in alo..(ahi - 1), j \in blo..(bhi - 1)})
         IN  IF k = 0 THEN <<alo, blo, 0>>
             ELSE LET i == SetMin({x \in alo..(ahi - 1) :
                                      \E y \in blo..(bhi - 1) :
                                         RunLength(a, b, x, ahi, y, bhi) = k})
                      j == SetMin({y \in blo..(bhi - 1) :
                                      RunLength(a, b, i, ahi, y, bhi) = k})
                  IN  <<i, j, k>>

\* SequenceMatcher.get_matching_blocks, summed as ratio() sums the block sizes
RECURSIVE matching_size(_, _, _, _, _, _)
matching_size(a, b, alo, ahi, blo, bhi) ==
    LET m == find_longest_match(a, b, alo, ahi, blo, bhi)
        i == m[1]
        j == m[2]
        k == m[3]
    IN  IF k = 0 THEN 0
        ELSE k + (IF alo < i /\ blo < j
                  THEN matching_size(a, b, alo, i, blo, j) ELSE 0)
               + (IF i + k < ahi /\ j + k < bhi
                  THEN matching_size(a, b, i + k, ahi, j + k, bhi) ELSE 0)

\* SequenceMatcher.ratio: 2.0 * matches / length, 1.0 when both are empty
ratio(a, b) ==
    IF Len(a) + Len(b) = 0 THEN <<1, 1>>
    ELSE <<2 * matching_size(a, b, 0, Len(a), 0, Len(b)), Len(a) + Len(b)>>

similarity(a, b) == ratio(Lower(a), Lower(b))

\* comparisons of scores
ScoreGt(x, y) == x[1] * y[2] > y[1] * x[2]
ScoreGe(x, y) == x[1] * y[2] >= y[1] * x[2]
ScoreEq(x, y) == x[1] * y[2] = y[1] * x[2]

MIN_SIMILARITY == <<MIN_SIMILARITY_NUM, MIN_SIMILARITY_DEN>>

-----------------------------------------------------------------------------
(* parse_epg_channels *)

\* the list re.findall(r"<channel id=\"(.*?)\">(.*?)</channel>", epg_xml) returns
ChannelBlocks(xml) == SelectSeq(xml.blocks, LAMBDA b : b.tag = "channel")

\* the list re.findall(r"<programme(.*?)</programme>", epg_xml) returns
ProgrammeBlocks(xml) == SelectSeq(xml.blocks, LAMBDA b : b.tag = "programme")

\* clean_names: the display-name texts of a block, whitespace collapsed and trimmed
CleanNames(inner) == [i \in 1..Len(inner) |-> Strip(CollapseSpace(inner[i]))]

\* d[k] = v on a dict kept as its item sequence: a new key goes last,
\* an existing key keeps its place
DictSet(d, k, v) ==
    IF \E i \in 1..Len(d) : d[i][1] = k
    THEN [i \in 1..Len(d) |-> IF d[i][1] = k THEN <<k, v>> ELSE d[i]]
    ELSE Append(d, <<k, v>>)

RECURSIVE ParseEpgLoop(_, _)
ParseEpgLoop(blocks, n) ==
    IF n = 0 THEN <<>>
    ELSE LET d == ParseEpgLoop(blocks, n - 1)
             clean_names == CleanNames(blocks[n].inner)
         IN  IF clean_names # <<>> THEN DictSet(d, blocks[n].cid, clean_names) ELSE d

parse_epg_channels(xml) ==
    ParseEpgLoop(ChannelBlocks(xml), Len(ChannelBlocks(xml)))

-----------------------------------------------------------------------------
(* find_best_match *)

\* the (cid, n) pairs in the order the two nested for loops visit them
RECURSIVE Pairs(_)
Pairs(d) ==
    IF d = <<>> THEN <<>>
    ELSE [i \in 1..Len(d[1][2]) |-> <<d[1][1], d[1][2][i]>>] \o Pairs(Tail(d))

\* FindLoop with "score >= best_score": a later pair with an equal score wins
RECURSIVE FindLoop_LastWins(_, _, _)
FindLoop_LastWins(channel_name, pairs, k) ==
    IF k = 0 THEN [best_id |-> None, best_score |-> <<0, 1>>]
    ELSE LET prev == FindLoop_LastWins(channel_name, pairs, k - 1)
             score == similarity(channel_name, pairs[k][2])
         IN  IF ScoreGe(score, prev.best_score)
             THEN [best_id |-> Some(pairs[k][1]), best_score |-> score]
             ELSE prev

\* best_id and best_score after the first k pairs
RECURSIVE FindLoop(_, _, _)
FindLoop(channel_name, pairs, k) ==
    IF k = 0 THEN [best_id |-> None, best_score |-> <<0, 1>>]
    ELSE LET prev == FindLoop(channel_name, pairs, k - 1)
             score == similarity(channel_name, pairs[k][2])
         IN  IF ScoreGt(score, prev.best_score)
             THEN [best_id |-> Some(pairs[k][1]), best_score |-> score]
             ELSE prev

find_best_match(channel_name, d) ==
    LET r == FindLoop(channel_name, Pairs(d), Len(Pairs(d)))
    IN  IF ScoreGe(r.best_score, MIN_SIMILARITY)
        THEN [cid |-> r.best_id, score |-> r.best_score]
        ELSE [cid |-> None, score |-> r.best_score]

-----------------------------------------------------------------------------
(* build_new_m3u *)

\* mapping.get(name)
DictGet(m, name) == IF name \in DOMAIN m THEN Some(m[name]) ELSE None

\* mapping[name] = cid
MapSet(m, name, cid) ==
    [n \in (DOMAIN m) \cup {name} |-> IF n = name THEN cid ELSE m[n]]

M3U_HEADER == <<"#", "E", "X", "T", "M", "3", "U", " ", "url-tvg=", "\"", OUTPUT_EPG, "\"">>

EXTINF_PLAIN == <<"#", "E", "X", "T", "I", "N", "F", ":", "-", "1">>

EXTINF_TVG == EXTINF_PLAIN \o <<" ", "tvg-id=", "\"">>

\* EntryLines that appends nothing for an entry without an identifier
EntryLines_SkipUnmatched(entry, m) ==
    LET name == entry[1]
        url == entry[2]
        cid == DictGet(m, name)
    IN  IF TruthyId(cid)
        THEN <<EXTINF_TVG \o <<cid.val, "\"", ",">> \o name, url>>
        ELSE <<>>

\* the two lines build_new_m3u appends for one entry
EntryLines(entry, m) ==
    LET name == entry[1]
        url == entry[2]
        cid == DictGet(m, name)
    IN  IF TruthyId(cid)
        THEN <<EXTINF_TVG \o <<cid.val, "\"", ",">> \o name, url>>
        ELSE <<EXTINF_PLAIN \o <<",">> \o name, url>>

RECURSIVE BuildM3ULoop(_, _, _)
BuildM3ULoop(chans, m, n) ==
    IF n = 0 THEN <<M3U_HEADER>>
    ELSE BuildM3ULoop(chans, m, n - 1) \o EntryLines(chans[n], m)

build_new_m3u(chans, m) == BuildM3ULoop(chans, m, Len(chans))

-----------------------------------------------------------------------------
(* build_filtered_epg *)

DEFAULT_HEADER == "<?xml version=\"1.0\" encoding=\"utf-8\"?><tv>"

FOOTER == "</tv>"

\* used_ids is handed over as a set object with some iteration order; the code
\* only ever asks it for membership
InSet(x, used_iter) == \E i \in 1..Len(used_iter) : used_iter[i] = x

\* channel blocks emitted by iterating over used_ids instead of the document
RECURSIVE EpgChannelsOut_ByIter(_, _)
EpgChannelsOut_ByIter(xml, used_iter) ==
    IF used_iter = <<>> THEN <<>>
    ELSE SelectSeq(ChannelBlocks(xml), LAMBDA b : b.cid = Head(used_iter))
         \o EpgChannelsOut_ByIter(xml, Tail(used_iter))

EpgChannelsOut(xml, used_iter) ==
    SelectSeq(ChannelBlocks(xml), LAMBDA b : InSet(b.cid, used_iter))

\* programme blocks emitted without the used_ids test
EpgProgrammesOut_NoFilter(xml, used_iter) ==
    SelectSeq(ProgrammeBlocks(xml), LAMBDA b : ~b.ch.none)

EpgProgrammesOut(xml, used_iter) ==
    SelectSeq(ProgrammeBlocks(xml),
              LAMBDA b : (~b.ch.none) /\ InSet(b.ch.val, used_iter))

build_filtered_epg(xml, used_iter) ==
    <<[tag |-> "header",
       text |-> IF xml.prologue.none THEN DEFAULT_HEADER ELSE xml.prologue.val]>>
    \o EpgChannelsOut(xml, used_iter)
    \o EpgProgrammesOut(xml, used_iter)
    \o <<[tag |-> "footer", text |-> FOOTER]>>

-----------------------------------------------------------------------------
(* Input documents *)

\* display names of playlist entries
NameABC == <<"a", "b", "c">>
NameA_B == <<"a", " ", "b">>
PlaylistNames == {NameABC, NameA_B}

Url(i) == <<"u", ToString(i)>>

\* lines of a playlist document
LineNamed(name) == EXTINF_PLAIN \o <<",">> \o name
LineNoComma == EXTINF_PLAIN
LineBlankName == EXTINF_PLAIN \o <<",", " ">>
LinePadded == <<" ">> \o EXTINF_PLAIN \o <<",", "a", ",", "b", " ">>
LineComment == <<"#", "E", "X", "T", "V", "L", "C">>
LineSpace == <<" ", "\t">>
LineUrl == Url(1)
LineUrlPadded == <<" ">> \o Url(2) \o <<"\t">>

M3ULines == {LineNamed(NameABC), LineNoComma, LineBlankName, LinePadded,
             LineComment, LineSpace, LineUrl, LineUrlPadded}

\* every document of at most MaxLines lines
M3UDocs == UNION {[1..n -> M3ULines] : n \in 0..MaxLines}

\* the document that lists the given names, one metadata line and one URL each
RECURSIVE PairDoc(_)
PairDoc(names) ==
    IF names = <<>> THEN <<>>
    ELSE PairDoc(SubSeq(names, 1, Len(names) - 1))
         \o <<LineNamed(names[Len(names)]), Url(Len(names))>>

PairDocs == {PairDoc(names) : names \in UNION {[1..n -> PlaylistNames] : n \in 0..MaxEntries}}

\* blocks of a guide document
Channel(cid, inner) == [tag |-> "channel", cid |-> cid, inner |-> inner]
Programme(ch, body) == [tag |-> "programme", ch |-> ch, body |-> body]

EPGBlocks ==
    { Channel("x", << <<"a", "b", "c">> >>),
      Channel("y", << <<"a", "b">>, <<"A", "B", "C">> >>),
      Channel("z", << <<" ", "a", " ", "\t", "b", " ">>, <<"a", "b", "c", "d">> >>),
      Channel("", << <<"a", "b", "c">> >>),
      Channel("x", <<>>),
      Programme(Some("x"), "p1"),
      Programme(Some("q"), "p2"),
      Programme(None, "p3") }

Prologues == {Some("<?xml version=\"1.0\"?><tv>"), None}

EPGDocs == {[prologue |-> p, blocks |-> b] :
               p \in Prologues, b \in UNION {[1..n -> EPGBlocks] : n \in 0..MaxBlocks}}

EmptyGuide == [prologue |-> None, blocks |-> <<>>]

-----------------------------------------------------------------------------
(* The fetch collaborators *)

M3UOutcomes == {"ok", "http_error", "timeout"}
EPGOutcomes == {"ok", "http_error", "timeout", "bad_gzip"}

\* a fetch whose failure is swallowed
Raises_Never(outcome) == FALSE

\* requests.get raising on a timeout, r.raise_for_status() on a non-success
\* status, gzip on a malformed archive
Raises(outcome) == outcome # "ok"

\* r.text / the decompressed body of the response
Body(outcome, doc, errorBody) == IF outcome = "ok" THEN doc ELSE errorBody

-----------------------------------------------------------------------------
(* main *)

Locals ==
    /\ m3u_status = "none"
    /\ epg_status = "none"
    /\ m3u_text = <<>>
    /\ epg_xml = EmptyGuide
    /\ line_idx = 0
    /\ current_name = None
    /\ channels = <<>>
    /\ epg_channels = <<>>
    /\ match_idx = 0
    /\ mapping = <<>>
    /\ used_ids = {}
    /\ new_m3u = <<>>
    /\ filtered_epg = <<>>
    /\ file_m3u = None
    /\ file_epg = None

Init ==
    /\ pc = "fetch_m3u"
    /\ run = 1
    /\ src_m3u \in PairDocs
    /\ src_epg \in EPGDocs
    /\ first_out = None
    /\ Locals

DownloadText ==
    /\ pc = "fetch_m3u"
    /\ \E outcome \in M3UOutcomes :
          /\ m3u_status' = outcome
          /\ IF Raises(outcome)
             THEN pc' = "aborted" /\ UNCHANGED m3u_text
             ELSE pc' = "fetch_epg" /\ m3u_text' = Body(outcome, src_m3u, <<>>)
    /\ UNCHANGED <<run, epg_status, src_m3u, src_epg, epg_xml, line_idx,
                   current_name, channels, epg_channels, match_idx, mapping,
                   used_ids, new_m3u, filtered_epg, file_m3u, file_epg, first_out>>

DownloadGzipXml ==
    /\ pc = "fetch_epg"
    /\ \E outcome \in EPGOutcomes :
          /\ epg_status' = outcome
          /\ IF Raises(outcome)
             THEN pc' = "aborted" /\ UNCHANGED epg_xml
             ELSE pc' = "parse_m3u" /\ epg_xml' = Body(outcome, src_epg, EmptyGuide)
    /\ UNCHANGED <<run, m3u_status, src_m3u, src_epg, m3u_text, line_idx,
                   current_name, channels, epg_channels, match_idx, mapping,
                   used_ids, new_m3u, filtered_epg, file_m3u, file_epg, first_out>>

\* one iteration of the for loop of parse_m3u_channels
ParseLine ==
    /\ pc = "parse_m3u"
    /\ line_idx < Len(m3u_text)
    /\ LET st == ParseStep([current_name |-> current_name, channels |-> channels],
                           m3u_text[line_idx + 1])
       IN  /\ current_name' = st.current_name
           /\ channels' = st.channels
    /\ line_idx' = line_idx + 1
    /\ UNCHANGED <<pc, run, m3u_status, epg_status, src_m3u, src_epg, m3u_text,
                   epg_xml, epg_channels, match_idx, mapping, used_ids, new_m3u,
                   filtered_epg, file_m3u, file_epg, first_out>>

\* parse_m3u_channels returns; main calls parse_epg_channels and sets up the loop
ParseEpgChannels ==
    /\ pc = "parse_m3u"
    /\ line_idx = Len(m3u_text)
    /\ epg_channels' = parse_epg_channels(epg_xml)
    /\ mapping' = <<>>
    /\ used_ids' = {}
    /\ match_idx' = 0
    /\ pc' = "match"
    /\ UNCHANGED <<run, m3u_status, epg_status, src_m3u, src_epg, m3u_text,
                   epg_xml, line_idx, current_name, channels, new_m3u,
                   filtered_epg, file_m3u, file_epg, first_out>>

\* MatchStep with "used_ids = {cid}" in place of "used_ids.add(cid)"
MatchStep_LastUsed(m, used, name, d) ==
    LET r == find_best_match(name, d)
    IN  IF TruthyId(r.cid)
        THEN [mapping |-> MapSet(m, name, r.cid.val), used_ids |-> {r.cid.val}]
        ELSE [mapping |-> m, used_ids |-> used]

\* MatchStep that adds the best identifier to used_ids before the threshold test
MatchStep_AddBest(m, used, name, d) ==
    LET r == find_best_match(name, d)
        best == FindLoop(name, Pairs(d), Len(Pairs(d))).best_id
        used2 == IF TruthyId(best) THEN used \cup {best.val} ELSE used
    IN  IF TruthyId(r.cid)
        THEN [mapping |-> MapSet(m, name, r.cid.val), used_ids |-> used2]
        ELSE [mapping |-> m, used_ids |-> used2]

\* the body of the matching loop for one entry: the new [mapping, used_ids]
MatchStep(m, used, name, d) ==
    LET r == find_best_match(name, d)
    IN  IF TruthyId(r.cid)
        THEN [mapping |-> MapSet(m, name, r.cid.val), used_ids |-> used \cup {r.cid.val}]
        ELSE [mapping |-> m, used_ids |-> used]

MatchEntry ==
    /\ pc = "match"
    /\ match_idx < Len(channels)
    /\ LET st == MatchStep(mapping, used_ids, channels[match_idx + 1][1], epg_channels)
       IN  /\ mapping' = st.mapping
           /\ used_ids' = st.used_ids
    /\ match_idx' = match_idx + 1
    /\ UNCHANGED <<pc, run, m3u_status, epg_status, src_m3u, src_epg, m3u_text,
                   epg_xml, line_idx, current_name, channels, epg_channels,
                   new_m3u, filtered_epg, file_m3u, file_epg, first_out>>

BuildNewM3U ==
    /\ pc = "match"
    /\ match_idx = Len(channels)
    /\ new_m3u' = build_new_m3u(channels, mapping)
    /\ pc' = "write_m3u"
    /\ UNCHANGED <<run, m3u_status, epg_status, src_m3u, src_epg, m3u_text,
                   epg_xml, line_idx, current_name, channels, epg_channels,
                   match_idx, mapping, used_ids, filtered_epg, file_m3u,
                   file_epg, first_out>>

WriteM3U ==
    /\ pc = "write_m3u"
    /\ file_m3u' = Some(new_m3u)
    /\ pc' = "build_epg"
    /\ UNCHANGED <<run, m3u_status, epg_status, src_m3u, src_epg, m3u_text,
                   epg_xml, line_idx, current_name, channels, epg_channels,
                   match_idx, mapping, used_ids, new_m3u, filtered_epg,
                   file_epg, first_out>>

\* the iteration orders a set object may have (string hashing is seeded per process)
Orderings(S) ==
    {f \in [1..Cardinality(S) -> S] : \A i, j \in 1..Cardinality(S) : f[i] = f[j] => i = j}

BuildFilteredEpg ==
    /\ pc = "build_epg"
    /\ \E used_iter \in Orderings(used_ids) :
          filtered_epg' = build_filtered_epg(epg_xml, used_iter)
    /\ pc' = "write_epg"
    /\ UNCHANGED <<run, m3u_status, epg_status, src_m3u, src_epg, m3u_text,
                   epg_xml, line_idx, current_name, channels, epg_channels,
                   match_idx, mapping, used_ids, new_m3u, file_m3u, file_epg,
                   first_out>>

WriteEpg ==
    /\ pc = "write_epg"
    /\ file_epg' = Some(filtered_epg)
    /\ pc' = "done"
    /\ UNCHANGED <<run, m3u_status, epg_status, src_m3u, src_epg, m3u_text,
                   epg_xml, line_idx, current_name, channels, epg_channels,
                   match_idx, mapping, used_ids, new_m3u, filtered_epg,
                   file_m3u, first_out>>

\* the program is started again while the servers hold the same documents
Rerun ==
    /\ pc = "done"
    /\ run = 1
    /\ run' = 2
    /\ first_out' = Some([m3u |-> file_m3u.val, epg |-> file_epg.val])
    /\ pc' = "fetch_m3u"
    /\ m3u_status' = "none"
    /\ epg_status' = "none"
    /\ m3u_text' = <<>>
    /\ epg_xml' = EmptyGuide
    /\ line_idx' = 0
    /\ current_name' = None
    /\ channels' = <<>>
    /\ epg_channels' = <<>>
    /\ match_idx' = 0
    /\ mapping' = <<>>
    /\ used_ids' = {}
    /\ new_m3u' = <<>>
    /\ filtered_epg' = <<>>
    /\ file_m3u' = None
    /\ file_epg' = None
    /\ UNCHANGED <<src_m3u, src_epg>>

Next ==
    \/ DownloadText
    \/ DownloadGzipXml
    \/ ParseLine
    \/ ParseEpgChannels
    \/ MatchEntry
    \/ BuildNewM3U
    \/ WriteM3U
    \/ BuildFilteredEpg
    \/ WriteEpg
    \/ Rerun

Spec == Init /\ [][Next]_vars

\* parse_m3u_channels alone, on every document of at most MaxLines lines
InitM3U ==
    /\ pc = "parse_m3u"
    /\ run = 1
    /\ src_m3u \in M3UDocs
    /\ src_epg = EmptyGuide
    /\ first_out = None
    /\ m3u_status = "ok"
    /\ epg_status = "ok"
    /\ m3u_text = src_m3u
    /\ epg_xml = src_epg
    /\ line_idx = 0
    /\ current_name = None
    /\ channels = <<>>
    /\ epg_channels = <<>>
    /\ match_idx = 0
    /\ mapping = <<>>
    /\ used_ids = {}
    /\ new_m3u = <<>>
    /\ filtered_epg = <<>>
    /\ file_m3u = None
    /\ file_epg = None

NextM3U == ParseLine

SpecM3U == InitM3U /\ [][NextM3U]_vars

\* The matching loop and the playlist projection alone, on a playlist of one
\* entry and every guide of at most MaxChannels channel blocks: main after
\* parse_epg_channels has returned
ChannelBlocksIn ==
    {b \in EPGBlocks : b.tag = "channel"} \cup {Channel("w", << <<"a", "b", "c", "d">> >>)}

ChannelDocs == {[prologue |-> Some("<tv>"), blocks |-> b] :
                   b \in UNION {[1..n -> ChannelBlocksIn] : n \in 0..MaxChannels}}

\* the names matched against these guides, one entry to a playlist
MatchNames == PlaylistNames \cup {<<"A", "B", "C", "D">>}

InitMatch ==
    /\ pc = "match"
    /\ run = 1
    /\ src_m3u \in {PairDoc(<<name>>) : name \in MatchNames}
    /\ src_epg \in ChannelDocs
    /\ first_out = None
    /\ m3u_status = "ok"
    /\ epg_status = "ok"
    /\ m3u_text = src_m3u
    /\ epg_xml = src_epg
    /\ line_idx = Len(m3u_text)
    /\ current_name = ParseLoop(m3u_text, Len(m3u_text)).current_name
    /\ channels = parse_m3u_channels(m3u_text)
    /\ epg_channels = parse_epg_channels(epg_xml)
    /\ match_idx = 0
    /\ mapping = <<>>
    /\ used_ids = {}
    /\ new_m3u = <<>>
    /\ filtered_epg = <<>>
    /\ file_m3u = None
    /\ file_epg = None

NextMatch == MatchEntry \/ BuildNewM3U

SpecMatch == InitMatch /\ [][NextMatch]_vars

\* build_new_m3u alone, on every playlist of at most MaxEntries entries and
\* every mapping of its names
Ids == {"x", "y", ""}

Mappings == UNION {[D -> Ids] : D \in SUBSET PlaylistNames}

InitProject ==
    /\ pc = "match"
    /\ run = 1
    /\ src_m3u \in PairDocs
    /\ src_epg = EmptyGuide
    /\ first_out = None
    /\ m3u_status = "ok"
    /\ epg_status = "ok"
    /\ m3u_text = src_m3u
    /\ epg_xml = src_epg
    /\ line_idx = Len(m3u_text)
    /\ current_name = None
    /\ channels = parse_m3u_channels(m3u_text)
    /\ epg_channels = <<>>
    /\ match_idx = Len(channels)
    /\ mapping \in Mappings
    /\ used_ids = {mapping[n] : n \in DOMAIN mapping}
    /\ new_m3u = <<>>
    /\ filtered_epg = <<>>
    /\ file_m3u = None
    /\ file_epg = None

NextProject == BuildNewM3U \/ WriteM3U

SpecProject == InitProject /\ [][NextProject]_vars

-----------------------------------------------------------------------------
(* Properties *)

\* the metadata line carries the name: it is "#EXTINF:-1,<name>" or
\* "#EXTINF:-1 tvg-id="<id>",<name>" for a non-empty identifier
CarriesName(line, name) ==
    \/ line = EXTINF_PLAIN \o <<",">> \o name
    \/ \E cid \in (Ids \cup used_ids) \ {""} :
          line = EXTINF_TVG \o <<cid, "\"", ",">> \o name

\* C1: build_new_m3u emits the header line and then exactly one metadata-line/
\* URL-line pair per entry, in entry order: as many pairs as entries, the i-th
\* pair carrying the i-th entry's name and URL, whether or not it was matched.
C1_OnePairPerEntry ==
    pc # "match" =>
        /\ Len(new_m3u) = 1 + 2 * Len(channels)
        /\ new_m3u[1] = M3U_HEADER
        /\ \A i \in 1..Len(channels) :
              /\ CarriesName(new_m3u[2 * i], channels[i][1])
              /\ new_m3u[2 * i + 1] = channels[i][2]

\* a projected playlist of two entries, the first with an identifier and the
\* second without
C1_Witness ==
    /\ pc = "write_m3u"
    /\ Len(channels) = 2
    /\ TruthyId(DictGet(mapping, channels[1][1]))
    /\ ~TruthyId(DictGet(mapping, channels[2][1]))
    /\ Len(new_m3u) = 5

-----------------------------------------------------------------------------

IsMeta(t) == StartsWith(t, EXTINF)
IsSkipped(t) == ~IsMeta(t) /\ (t = <<>> \/ t[1] = "#")
IsPending(o) == (~o.none) /\ Len(o.val) > 0

\* what the register machine does with the line it consumes
C9_Step ==
    line_idx' = line_idx + 1 =>
        LET t == Strip(m3u_text[line_idx + 1]) IN
        /\ (IsMeta(t) /\ Contains(t, ",")) =>
              /\ current_name' = Some(Strip(AfterFirst(t, ",")))
              /\ channels' = channels
        /\ (IsMeta(t) /\ ~Contains(t, ",")) =>
              /\ current_name' = None
              /\ channels' = channels
        /\ IsSkipped(t) => UNCHANGED <<current_name, channels>>
        /\ (~IsMeta(t) /\ ~IsSkipped(t) /\ IsPending(current_name)) =>
              /\ channels' = Append(channels, <<current_name.val, t>>)
              /\ current_name' = None
        /\ (~IsMeta(t) /\ ~IsSkipped(t) /\ ~IsPending(current_name)) =>
              UNCHANGED <<current_name, channels>>

\* the entries are, in document order, the URL lines that follow a metadata
\* line with a non-empty name, no other metadata or URL line lying between
C9_Entries ==
    /\ Len(channels) <= Cardinality({i \in 1..line_idx : IsMeta(Strip(m3u_text[i]))})
    /\ \A k \in 1..Len(channels) : channels[k][1] # <<>>
    /\ \E e, u \in [1..Len(channels) -> 1..line_idx] :
          \A k \in 1..Len(channels) :
              /\ e[k] < u[k]
              /\ k > 1 => u[k - 1] < e[k]
              /\ IsMeta(Strip(m3u_text[e[k]]))
              /\ Contains(Strip(m3u_text[e[k]]), ",")
              /\ channels[k][1] = Strip(AfterFirst(Strip(m3u_text[e[k]]), ","))
              /\ channels[k][2] = Strip(m3u_text[u[k]])
              /\ \A j \in (e[k] + 1)..(u[k] - 1) : IsSkipped(Strip(m3u_text[j]))

\* C9: parse_m3u_channels is a one-register machine: a metadata line sets the
\* pending name to the trimmed text after its first comma or clears it when
\* there is no comma; comment and blank lines change nothing; any other line
\* emits (pending name, line) and clears the register when a name is pending
\* and is ignored otherwise.  So a metadata line yields at most one entry, no
\* entry has an empty or absent name, and entries are in document order.
C9_RegisterMachine == [][C9_Step]_vars /\ []C9_Entries

\* a name survives a comment line and a blank line and is consumed by the URL
C9_Witness ==
    /\ m3u_text = <<LineNamed(NameABC), LineComment, LineSpace, LineUrlPadded>>
    /\ line_idx = 4
    /\ channels = << <<NameABC, Url(2)>> >>
    /\ current_name = None

-----------------------------------------------------------------------------

\* the identifier a metadata line of the projected playlist carries as tvg-id
TvgIdOf(line) ==
    IF StartsWith(line, EXTINF_TVG) THEN Some(line[Len(EXTINF_TVG) + 1]) ELSE None

TvgIds(lines) ==
    {TvgIdOf(lines[i]).val : i \in {j \in 1..Len(lines) : ~TvgIdOf(lines[j]).none}}

\* the ids of the channel blocks of a projected guide
ChannelIdsOf(out) ==
    {out[i].cid : i \in {j \in 1..Len(out) : out[j].tag = "channel"}}

\* C2: after a full run, every identifier attached as tvg-id in the written
\* playlist is the id of at least one channel block of the written guide.
C2_PlaylistIdsInGuide ==
    pc = "done" => TvgIds(file_m3u.val) \subseteq ChannelIdsOf(file_epg.val)

\* a completed run whose playlist carries an identifier
C2_Witness == pc = "done" /\ TvgIds(file_m3u.val) # {}

\* C3: every programme block of the projected guide has a channel attribute
\* equal to the id of a channel block of the same projected guide, and no
\* programme block of the source that references anything else is emitted.
C3_NoOrphanProgrammes ==
    pc \in {"write_epg", "done"} =>
        /\ \A i \in 1..Len(filtered_epg) :
              filtered_epg[i].tag = "programme" =>
                  /\ ~filtered_epg[i].ch.none
                  /\ filtered_epg[i].ch.val \in ChannelIdsOf(filtered_epg)
        /\ \A i \in 1..Len(epg_xml.blocks) :
              LET b == epg_xml.blocks[i] IN
              (b.tag = "programme" /\ (b.ch.none \/ b.ch.val \notin ChannelIdsOf(filtered_epg)))
                  => \A j \in 1..Len(filtered_epg) : filtered_epg[j] # b

\* a projected guide that holds a programme block
C3_Witness ==
    /\ pc = "write_epg"
    /\ \E i \in 1..Len(filtered_epg) : filtered_epg[i].tag = "programme"

\* C4: when the matching loop has ended, used_ids is exactly the set of
\* identifiers attached to playlist entries: id is in used_ids if and only if
\* some entry's name is mapped to it; the projected playlist carries exactly
\* these identifiers.
C4_UsedIdsExact ==
    /\ (pc \in {"write_m3u", "build_epg", "write_epg", "done"}
        \/ (pc = "match" /\ match_idx = Len(channels))) =>
          \A id \in used_ids \cup Ids \cup {epg_channels[i][1] : i \in 1..Len(epg_channels)} :
              id \in used_ids <=>
                  \E i \in 1..Len(channels) : DictGet(mapping, channels[i][1]) = Some(id)
    /\ pc \in {"write_m3u", "build_epg", "write_epg", "done"} =>
          used_ids = TvgIds(new_m3u)

\* the loop has ended on two entries that share a display name and were matched
C4_Witness ==
    /\ pc = "match"
    /\ match_idx = Len(channels)
    /\ Len(channels) = 2
    /\ channels[1][1] = channels[2][1]
    /\ used_ids # {}

\* C7: a run in which a fetch raised writes neither output file: whenever an
\* output file has been written, both fetches of this run completed successfully.
C7_NoOutputAfterFetchError ==
    /\ (~file_m3u.none \/ ~file_epg.none) => (m3u_status = "ok" /\ epg_status = "ok")
    /\ pc \in {"write_m3u", "build_epg", "write_epg", "done"} =>
          (m3u_status = "ok" /\ epg_status = "ok")
    /\ pc = "aborted" => (file_m3u.none /\ file_epg.none)

\* the guide fetch raised after the playlist fetch had succeeded
C7_Witness == pc = "aborted" /\ m3u_status = "ok" /\ epg_status = "timeout"

-----------------------------------------------------------------------------

\* the positions of the guide mapping and of the aliases of one of its channels
Keys == 1..Len(epg_channels)
AliasesOf(i) == {epg_channels[i][2][j] : j \in 1..Len(epg_channels[i][2])}

\* the greatest score of a name over all (identifier, alias) pairs, 0 without pairs
MaxScore(name) ==
    LET scores == {similarity(name, a) : a \in UNION {AliasesOf(i) : i \in Keys}}
    IN  IF scores = {} THEN <<0, 1>>
        ELSE CHOOSE s \in scores : \A t \in scores : ScoreGe(s, t)

\* the channels of the guide mapping that reach the greatest score of a name
AtMax(name) ==
    LET m == MaxScore(name)
    IN  {i \in Keys : \E a \in AliasesOf(i) : ScoreEq(similarity(name, a), m)}

\* the names the matching loop has handled so far
Handled == {channels[k][1] : k \in 1..match_idx}

\* C5: for a non-empty playlist name and a guide mapping in which some channel
\* has an alias that is an exact duplicate of the name, find_best_match returns
\* score 1.0 and that channel's identifier, and main records it for the entry.
C5_ExactAliasSelected ==
    \A name \in Handled : \A i \in Keys :
        name \in AliasesOf(i) =>
            /\ ScoreEq(find_best_match(name, epg_channels).score, <<1, 1>>)
            /\ find_best_match(name, epg_channels).cid = Some(epg_channels[i][1])
            /\ DictGet(mapping, name) = Some(epg_channels[i][1])

\* C6: an entry receives an identifier if and only if the greatest score over
\* all (identifier, alias) pairs is at least MIN_SIMILARITY, and an entry
\* without one is emitted without a tvg-id attribute.
C6_IdentifierIffThreshold ==
    /\ \A name \in Handled :
          name \in DOMAIN mapping <=> ScoreGe(MaxScore(name), MIN_SIMILARITY)
    /\ pc = "write_m3u" =>
          \A k \in 1..Len(channels) :
              (~TvgIdOf(new_m3u[2 * k]).none)
                  <=> ScoreGe(MaxScore(channels[k][1]), MIN_SIMILARITY)

\* the index of the first channel block of the document with the given id
FirstBlock(cid) ==
    SetMin({n \in 1..Len(ChannelBlocks(epg_xml)) : ChannelBlocks(epg_xml)[n].cid = cid})

\* the index of the first channel block with the given id and a display-name
FirstNamedBlock(cid) ==
    SetMin({n \in 1..Len(ChannelBlocks(epg_xml)) :
               /\ ChannelBlocks(epg_xml)[n].cid = cid
               /\ ChannelBlocks(epg_xml)[n].inner # <<>>})

\* C10 as stated: when several identifiers reach the same greatest score,
\* find_best_match returns the one met first in the guide mapping's iteration
\* order, which is the one whose id appears first in the guide document.
C10_FirstAtMaxReturned ==
    \A name \in Handled :
        LET tied == AtMax(name)
            first == IF tied = {} THEN 0 ELSE SetMin(tied)
        IN  Cardinality(tied) >= 2 =>
                /\ find_best_match(name, epg_channels).cid = Some(epg_channels[first][1])
                /\ \A i \in tied :
                      FirstBlock(epg_channels[first][1]) <= FirstBlock(epg_channels[i][1])

\* C10, amended: when several identifiers reach the same greatest score and
\* that score is at least MIN_SIMILARITY, find_best_match returns the one met
\* first in the guide mapping's iteration order, which is the one whose first
\* channel block with a display-name comes first in the guide document; below
\* MIN_SIMILARITY it returns no identifier; in the loop a pair with a score
\* equal to best_score never replaces the current best.
C10_FirstAtMaxAccepted ==
    \A name \in Handled :
        LET r == find_best_match(name, epg_channels)
            tied == AtMax(name)
            first == IF tied = {} THEN 0 ELSE SetMin(tied)
            accepted == ScoreGe(r.score, MIN_SIMILARITY)
            pairs == Pairs(epg_channels)
        IN  /\ ScoreEq(r.score, MaxScore(name))
            /\ (Cardinality(tied) >= 2 /\ accepted) =>
                  /\ r.cid = Some(epg_channels[first][1])
                  /\ \A i \in tied :
                        FirstNamedBlock(epg_channels[first][1])
                            <= FirstNamedBlock(epg_channels[i][1])
            /\ ~accepted => r.cid = None
            /\ \A n \in 1..Len(pairs) :
                  LET after == FindLoop(name, pairs, n)
                      before == FindLoop(name, pairs, n - 1)
                  IN  ScoreEq(similarity(name, pairs[n][2]), before.best_score)
                          => after = before

\* a name handled against a guide in which two identifiers tie at an accepted
\* score and the one returned is not the one whose id appears first
C10_Witness ==
    /\ match_idx >= 1
    /\ \E name \in Handled :
          LET tied == AtMax(name)
              first == IF tied = {} THEN 0 ELSE SetMin(tied)
          IN  /\ Cardinality(tied) >= 2
              /\ ScoreGe(MaxScore(name), MIN_SIMILARITY)
              /\ DictGet(mapping, name) = Some(epg_channels[first][1])
              /\ \E i \in tied :
                    FirstBlock(epg_channels[i][1]) < FirstBlock(epg_channels[first][1])

====
